---- MODULE Spec2Model ----
(***************************************************************************)
(* A model of the audiobook generator's synthesis core                     *)
(* (src/audiobook/audio_synthesis.py):                                     *)
(*   - AudioSynthesisService.synthesize_audio, the orchestrator, with      *)
(*     GoogleTTSSynthesizer.synthesize (retry with backoff) inlined in its *)
(*     chunk loop                                        (specification Spec) *)
(*   - DefaultTextChunker.chunk                   (specification SpecChunk) *)
(*   - GoogleTTSVoiceSelector.get_contextual_voice_parameters              *)
(*                                                (specification SpecVoice) *)
(* and of TextProcessingService.process_text                               *)
(* (src/audiobook/text_processing.py)              (specification SpecText) *)
(*                                                                         *)
(* Environment.  The calls that reach the remote service or its            *)
(* credentials (TextToSpeechClient(), synthesize_speech, list_voices) may  *)
(* fail; AudioSegment.from_mp3 may fail with the errors the code catches.  *)
(* Writes of the run's own files succeed.  The temporary directory is      *)
(* caller-supplied and created with exist_ok=True, so it may already hold  *)
(* an entry that os.remove cannot delete (a sub-directory).                *)
(***************************************************************************)
EXTENDS Integers, Sequences, FiniteSets, TLC

\* ---------------------------------------------------------------- bounds
\* The longest chunk list the chunker hands to the orchestrator.
MaxChunks == 2

\* ------------------------------------------------------ program constants
\* GoogleTTSSynthesizer.__init__(max_retries = 5)
MAX_API_RETRIES == 5

VARIABLES
    pc,             \* position of synthesize_audio
    foreign,        \* the temporary directory pre-exists and holds a sub-directory
    chunks,         \* the chunker's result: a sequence of "text" / "blank"
    i,              \* loop index of `for i, chunk in enumerate(chunks)` (0-based)
    voice_params,   \* the profile chosen once for the run
    temp_files,     \* entries of temp_audio_dir
    attempt,        \* loop variable of synthesize's retry loop
    backend,        \* what the backend will do for the current chunk
    calls,          \* synthesize_speech calls made for the current chunk
    sleeps,         \* backoff sleeps taken for the current chunk
    outcome,        \* per chunk: how its synthesize call ended
    combined_audio, \* the AudioSegment being assembled: chunk indices in order
    output_file,    \* output_audio_path: whether it exists, and its audio
    result,         \* return value of synthesize_audio
    temp_dir,       \* temp_audio_dir exists
    log,            \* the calls synthesize_audio made on its collaborators, in order
    total_calls     \* synthesize_speech calls made during the run

pvars == <<pc, foreign, chunks, i, voice_params, temp_files, attempt, backend,
           calls, sleeps, outcome, combined_audio, output_file, result, temp_dir,
           log, total_calls>>

\* DefaultTextChunker.chunk
VARIABLES
    text,            \* the input text, a sequence of tokens
    cpc,             \* position of chunk
    paragraphs,      \* paragraphs still to be visited
    sentences,       \* sentences of the current paragraph still to be visited
    sentence_parts,  \* parts of the current sentence still to be packed
    current_chunk,   \* the chunk being filled
    chunk_list,      \* `chunks`, the list being built
    cresult          \* "pending", "returned" or "ChunkingError"

cvars == <<text, cpc, paragraphs, sentences, sentence_parts, current_chunk,
           chunk_list, cresult>>

\* GoogleTTSVoiceSelector
VARIABLES
    spc,                          \* position of get_contextual_voice_parameters
    detected_language_code,       \* arguments of the call
    regional_code_from_text,
    sentiment_score,              \* in tenths
    categories,
    syntax_info,
    user_gender_preference,
    service,                      \* the voices the service lists
    available_voices,             \* the selector's cache
    list_voices_calls,            \* client.list_voices() calls made
    lookups,                      \* the codes get_available_voices was asked for
    voices_for_lang,
    preferred_voices_list_order,
    target_gender,
    selected_voice,
    pitch,                        \* in hundredths of a semitone
    speaking_rate,                \* in millionths
    cat_index,                    \* categories already visited by `for cat in categories`
    sstatus,                      \* "pending", "returned" or "raised"
    sprofile                      \* the returned profile

svars == <<spc, detected_language_code, regional_code_from_text, sentiment_score,
           categories, syntax_info, user_gender_preference, service,
           available_voices, list_voices_calls, lookups, voices_for_lang,
           preferred_voices_list_order, target_gender, selected_voice, pitch,
           speaking_rate, cat_index, sstatus, sprofile>>

\* TextProcessingService (src/audiobook/text_processing.py)
VARIABLES
    tpc,              \* position of process_text
    source_text,      \* what the source holds: None, or a text as its lines
    raw_text,
    raw_title,
    sanitized_title,
    author,
    cleaned_text,
    cleaner_calls,    \* calls of cleaner.clean
    exports,          \* (content, file name) of each exporter.export call
    tresult           \* "pending", "None" or "dict"

tvars == <<tpc, source_text, raw_text, raw_title, sanitized_title, author,
           cleaned_text, cleaner_calls, exports, tresult>>

vars == <<pvars, cvars, svars, tvars>>

Absent == [exists |-> FALSE, audio |-> <<>>]
Written(audio) == [exists |-> TRUE, audio |-> audio]
NoBackend == [fails |-> 0, final |-> "none"]

\* ------------------------------------------------------------ input sets
Elems(seq) == {seq[n] : n \in DOMAIN seq}

RECURSIVE SeqsUpTo(_, _)
SeqsUpTo(S, n) ==
    IF n = 0 THEN {<<>>}
    ELSE LET shorter == SeqsUpTo(S, n - 1)
         IN  shorter \cup {Append(s, x) : s \in {t \in shorter : Len(t) = n - 1}, x \in S}

\* What TextChunker.chunk may return: any list of chunks, blank ones included
\* (the chunker is an injected dependency).
ChunkLists == SeqsUpTo({"text", "blank"}, MaxChunks)

\* Backend behaviours for one chunk: `fails` transient errors, then `final`.
\* fails = MAX_API_RETRIES + 1 is a backend that fails transiently on every call.
BackendScripts ==
    [fails : 0 .. MAX_API_RETRIES, final : {"ok", "nontransient"}]
        \cup {[fails |-> MAX_API_RETRIES + 1, final |-> "transient"]}

VoiceProfiles == {"fallback", "catalog"}

ChunkFile(k) == <<"chunk", k>>       \* chunk_NNNN.mp3
FailedFile(k) == <<"failed", k>>     \* failed_chunk_NNNN.txt
SubDir == <<"subdir", 0>>

\* ------------------------------------------ GoogleTTSSynthesizer.synthesize
\* mutant: range(self.MAX_API_RETRIES), one attempt short
AttemptRangeShort == 0 .. MAX_API_RETRIES - 1

\* for attempt in range(self.MAX_API_RETRIES + 1)
AttemptRange == 0 .. MAX_API_RETRIES

\* mutant: the last retry is given up one attempt early
MayRetryEarly(a) == a < MAX_API_RETRIES - 1

\* if attempt < self.MAX_API_RETRIES
MayRetry(a) == a < MAX_API_RETRIES

\* mutant: the retrying handler catches every exception
IsTransientAny(err) == err \in {"transient", "nontransient"}

\* except (ResourceExhausted, InternalServerError, ServiceUnavailable)
IsTransient(err) == err = "transient"

\* What the backend answers to the call made in attempt a.
BackendAnswer(b, a) == IF a < b.fails THEN "transient" ELSE b.final

\* ----------------------------------- AudioSynthesisService.synthesize_audio
\* mutant: the empty-audio check is missing
IsSilentNever(audio) == FALSE

\* if combined_audio.duration_seconds == 0
IsSilent(audio) == Len(audio) = 0

\* except Exception: return None
Abort ==
    /\ pc' = "done"
    /\ result' = "None"

\* the chunker and the selector at rest
ChunkerIdle ==
    /\ text = <<>>
    /\ cpc = "idle"
    /\ paragraphs = <<>>
    /\ sentences = <<>>
    /\ sentence_parts = <<>>
    /\ current_chunk = <<>>
    /\ chunk_list = <<>>
    /\ cresult = "pending"

NoCode == <<>>
NoVoice == [name |-> <<>>, language_codes |-> <<>>, ssml_gender |-> "NONE"]
NoSyntax == [present |-> FALSE, wellformed |-> TRUE, num_sentences |-> 0,
             avg_tokens_per_sentence |-> 0, num_complex_clauses |-> 0]
NoProfile == [name |-> <<>>, pitch |-> 0, speaking_rate |-> 0,
              language_code |-> NoCode, voice_gender |-> "NONE"]

SelectorIdle ==
    /\ spc = "idle"
    /\ detected_language_code = NoCode
    /\ regional_code_from_text = NoCode
    /\ sentiment_score = 0
    /\ categories = <<>>
    /\ syntax_info = NoSyntax
    /\ user_gender_preference = "NONE"
    /\ service = <<>>
    /\ available_voices = <<>>
    /\ list_voices_calls = 0
    /\ lookups = <<>>
    /\ voices_for_lang = <<>>
    /\ preferred_voices_list_order = <<>>
    /\ target_gender = "NONE"
    /\ selected_voice = NoVoice
    /\ pitch = 0
    /\ speaking_rate = 0
    /\ cat_index = 0
    /\ sstatus = "pending"
    /\ sprofile = NoProfile

\* a text is None or a string, held as the sequence of its lines
NoText == [present |-> FALSE, lines |-> <<>>]
Text(lines) == [present |-> TRUE, lines |-> lines]

TextIdle ==
    /\ tpc = "idle"
    /\ source_text = NoText
    /\ raw_text = NoText
    /\ raw_title = <<>>
    /\ sanitized_title = <<>>
    /\ author = <<>>
    /\ cleaned_text = NoText
    /\ cleaner_calls = 0
    /\ exports = <<>>
    /\ tresult = "pending"

Init ==
    /\ ChunkerIdle
    /\ SelectorIdle
    /\ TextIdle
    /\ pc = "start"
    /\ foreign \in BOOLEAN
    /\ chunks = <<>>
    /\ i = 0
    /\ voice_params = "unset"
    /\ temp_files = IF foreign THEN {SubDir} ELSE {}
    /\ attempt = 0
    /\ backend = NoBackend
    /\ calls = 0
    /\ sleeps = 0
    /\ outcome = <<>>
    /\ combined_audio = <<>>
    /\ output_file = Absent
    /\ result = "pending"
    /\ temp_dir = foreign
    /\ log = <<>>
    /\ total_calls = 0

\* the argument a call was made on: the entire input text, chunk number k
\* (k >= 0), or no text at all
FullText == -1
NoArgument == -2

Call(op, on) == [op |-> op, on |-> on, with |-> "unset"]

\* mutant: an empty chunk list is not noticed
NoChunksNever(cs) == FALSE

\* if not chunks
NoChunks(cs) == cs = <<>>

\* chunks = self.chunker.chunk(text); if not chunks: return None
ChunkText ==
    /\ pc = "start"
    /\ log' = Append(log, Call("chunk", FullText))
    /\ \E cs \in ChunkLists :
        /\ chunks' = cs
        /\ outcome' = [k \in 1 .. Len(cs) |-> "pending"]
        /\ IF NoChunks(cs) THEN Abort ELSE pc' = "analyze" /\ result' = result
    /\ UNCHANGED temp_dir
    /\ UNCHANGED <<foreign, i, voice_params, temp_files, attempt, backend, calls,
                   sleeps, combined_audio, output_file>>
    /\ UNCHANGED total_calls
    /\ UNCHANGED <<cvars, svars, tvars>>

\* chunk raises ChunkingError, caught by the enclosing except Exception
ChunkRaises ==
    /\ pc = "start"
    /\ log' = Append(log, Call("chunk", FullText))
    /\ Abort
    /\ UNCHANGED temp_dir
    /\ UNCHANGED <<foreign, chunks, i, voice_params, temp_files, attempt, backend,
                   calls, sleeps, outcome, combined_audio, output_file>>
    /\ UNCHANGED total_calls
    /\ UNCHANGED <<cvars, svars, tvars>>

\* mutant: the sentiment is taken from the first chunk
AnalysisCallsOnChunk ==
    << Call("analyze_language", FullText), Call("analyze_sentiment", 0),
       Call("analyze_category", FullText), Call("analyze_syntax_complexity", FullText),
       Call("analyze_regional_context", FullText) >>

\* the five analyze_* calls, each on `text`
AnalysisCalls ==
    << Call("analyze_language", FullText), Call("analyze_sentiment", FullText),
       Call("analyze_category", FullText), Call("analyze_syntax_complexity", FullText),
       Call("analyze_regional_context", FullText) >>

\* the linguistic analysis
Analyze ==
    /\ pc = "analyze"
    /\ log' = log \o AnalysisCalls
    /\ pc' = "select"
    /\ UNCHANGED temp_dir
    /\ UNCHANGED <<foreign, chunks, i, voice_params, temp_files, attempt, backend,
                   calls, sleeps, outcome, combined_audio, output_file, result>>
    /\ UNCHANGED total_calls
    /\ UNCHANGED <<cvars, svars, tvars>>

\* get_gender_preference, get_contextual_voice_parameters, os.makedirs
SelectVoice ==
    /\ pc = "select"
    /\ voice_params' \in VoiceProfiles
    /\ \E given \in BOOLEAN :
        log' = log
                \o (IF given THEN <<>> ELSE <<Call("get_gender_preference", NoArgument)>>)
                \o <<Call("get_contextual_voice_parameters", NoArgument),
                     Call("makedirs", NoArgument)>>
    /\ temp_dir' = TRUE
    /\ pc' = "loop"
    /\ UNCHANGED <<foreign, chunks, i, temp_files, attempt, backend, calls,
                   sleeps, outcome, combined_audio, output_file, result>>
    /\ UNCHANGED total_calls
    /\ UNCHANGED <<cvars, svars, tvars>>

InLoop == pc = "loop" /\ i < Len(chunks)

\* if not chunk.strip(): continue
SkipBlank ==
    /\ InLoop
    /\ chunks[i + 1] = "blank"
    /\ outcome' = [outcome EXCEPT ![i + 1] = "skipped"]
    /\ i' = i + 1
    /\ UNCHANGED <<pc, foreign, chunks, voice_params, temp_files, attempt, backend,
                   calls, sleeps, combined_audio, output_file, result>>
    /\ UNCHANGED <<temp_dir, log>>
    /\ UNCHANGED total_calls
    /\ UNCHANGED <<cvars, svars, tvars>>

\* self.tts_synthesizer.synthesize(...) is entered: the client is built and the
\* request objects are made; the backend's behaviour for this chunk is fixed here.
SynthEnter ==
    /\ InLoop
    /\ chunks[i + 1] = "text"
    /\ backend' \in BackendScripts
    /\ attempt' = 0
    /\ calls' = 0
    /\ sleeps' = 0
    /\ outcome' = [outcome EXCEPT ![i + 1] = "running"]
    /\ log' = Append(log, [op |-> "synthesize", on |-> i, with |-> voice_params])
    /\ pc' = "attempt"
    /\ UNCHANGED temp_dir
    /\ UNCHANGED <<foreign, chunks, i, voice_params, temp_files, combined_audio,
                   output_file, result>>
    /\ UNCHANGED total_calls
    /\ UNCHANGED <<cvars, svars, tvars>>

\* texttospeech.TextToSpeechClient() raises (no usable credentials): the call is
\* outside synthesize's try, so the exception leaves synthesize and is caught by
\* synthesize_audio's except Exception.
SynthClientRaises ==
    /\ InLoop
    /\ chunks[i + 1] = "text"
    /\ outcome' = [outcome EXCEPT ![i + 1] = "raised"]
    /\ log' = Append(log, [op |-> "synthesize", on |-> i, with |-> voice_params])
    /\ Abort
    /\ UNCHANGED temp_dir
    /\ UNCHANGED <<foreign, chunks, i, voice_params, temp_files, attempt, backend,
                   calls, sleeps, combined_audio, output_file>>
    /\ UNCHANGED total_calls
    /\ UNCHANGED <<cvars, svars, tvars>>

\* One pass of the retry loop: the call, and the handler of what it raised.
Attempt ==
    /\ pc = "attempt"
    /\ calls' = calls + 1
    /\ LET answer == BackendAnswer(backend, attempt) IN
        IF answer = "ok"
        THEN \* the audio is written to output_filename; return True
             /\ temp_files' = temp_files \cup {ChunkFile(i)}
             /\ outcome' = [outcome EXCEPT ![i + 1] = "True"]
             /\ pc' = "returned"
             /\ UNCHANGED <<attempt, sleeps>>
        ELSE IF IsTransient(answer)
        THEN IF MayRetry(attempt)
             THEN \* time.sleep(delay), next attempt; `return False` after the loop
                  /\ sleeps' = sleeps + 1
                  /\ attempt' = attempt + 1
                  /\ IF attempt + 1 \in AttemptRange
                     THEN pc' = pc /\ outcome' = outcome
                     ELSE pc' = "returned"
                          /\ outcome' = [outcome EXCEPT ![i + 1] = "False"]
                  /\ UNCHANGED temp_files
             ELSE \* max retries reached: return False
                  /\ outcome' = [outcome EXCEPT ![i + 1] = "False"]
                  /\ pc' = "returned"
                  /\ UNCHANGED <<attempt, sleeps, temp_files>>
        ELSE \* except Exception: return False
             /\ outcome' = [outcome EXCEPT ![i + 1] = "False"]
             /\ pc' = "returned"
             /\ UNCHANGED <<attempt, sleeps, temp_files>>
    /\ UNCHANGED <<foreign, chunks, i, voice_params, backend, combined_audio,
                   output_file, result>>
    /\ UNCHANGED <<temp_dir, log>>
    /\ total_calls' = total_calls + 1
    /\ UNCHANGED <<cvars, svars, tvars>>

\* mutant: the loop takes the same chunk again
NextChunkAgain ==
    /\ i' = i
    /\ pc' = "loop"
    /\ attempt' = 0
    /\ backend' = NoBackend
    /\ calls' = 0
    /\ sleeps' = 0

\* the loop body ends: synthesize's locals are gone, the loop moves on
NextChunk ==
    /\ i' = i + 1
    /\ pc' = "loop"
    /\ attempt' = 0
    /\ backend' = NoBackend
    /\ calls' = 0
    /\ sleeps' = 0

\* if success: segment = AudioSegment.from_mp3(...); combined_audio += segment
AppendSegment ==
    /\ pc = "returned"
    /\ outcome[i + 1] = "True"
    /\ combined_audio' = Append(combined_audio, i)
    /\ NextChunk
    /\ UNCHANGED <<foreign, chunks, voice_params, temp_files, outcome,
                   output_file, result>>
    /\ UNCHANGED <<temp_dir, log>>
    /\ UNCHANGED total_calls
    /\ UNCHANGED <<cvars, svars, tvars>>

\* from_mp3 raises CouldntDecodeError or FileNotFoundError: logged, nothing else
DecodeFails ==
    /\ pc = "returned"
    /\ outcome[i + 1] = "True"
    /\ NextChunk
    /\ UNCHANGED <<foreign, chunks, voice_params, temp_files, outcome,
                   combined_audio, output_file, result>>
    /\ UNCHANGED <<temp_dir, log>>
    /\ UNCHANGED total_calls
    /\ UNCHANGED <<cvars, svars, tvars>>

\* else: the chunk's text is written to failed_chunk_NNNN.txt
SaveFailedChunk ==
    /\ pc = "returned"
    /\ outcome[i + 1] = "False"
    /\ temp_files' = temp_files \cup {FailedFile(i)}
    /\ NextChunk
    /\ UNCHANGED <<foreign, chunks, voice_params, outcome, combined_audio,
                   output_file, result>>
    /\ UNCHANGED <<temp_dir, log>>
    /\ UNCHANGED total_calls
    /\ UNCHANGED <<cvars, svars, tvars>>

\* after the loop: return None when nothing was assembled, else export
Export ==
    /\ pc = "loop"
    /\ i = Len(chunks)
    /\ IF IsSilent(combined_audio)
       THEN Abort /\ UNCHANGED output_file
       ELSE /\ output_file' = Written(combined_audio)
            /\ pc' = "cleanup"
            /\ result' = result
    /\ UNCHANGED <<foreign, chunks, i, voice_params, temp_files, attempt, backend,
                   calls, sleeps, outcome, combined_audio>>
    /\ UNCHANGED <<temp_dir, log>>
    /\ UNCHANGED total_calls
    /\ UNCHANGED <<cvars, svars, tvars>>

\* for file_name in os.listdir(temp_audio_dir): os.remove(...)
\* os.remove of a directory raises; the except Exception returns None
CleanupRemove ==
    /\ pc = "cleanup"
    /\ \E f \in temp_files :
        IF f = SubDir
        THEN Abort /\ UNCHANGED temp_files
        ELSE temp_files' = temp_files \ {f} /\ UNCHANGED <<pc, result>>
    /\ UNCHANGED <<foreign, chunks, i, voice_params, attempt, backend, calls,
                   sleeps, outcome, combined_audio, output_file>>
    /\ UNCHANGED <<temp_dir, log>>
    /\ UNCHANGED total_calls
    /\ UNCHANGED <<cvars, svars, tvars>>

\* os.rmdir(temp_audio_dir); return output_audio_path
ReturnPath ==
    /\ pc = "cleanup"
    /\ temp_files = {}
    /\ temp_dir' = FALSE
    /\ pc' = "done"
    /\ result' = "path"
    /\ UNCHANGED log
    /\ UNCHANGED <<foreign, chunks, i, voice_params, temp_files, attempt, backend,
                   calls, sleeps, outcome, combined_audio, output_file>>
    /\ UNCHANGED total_calls
    /\ UNCHANGED <<cvars, svars, tvars>>

Next ==
    \/ ChunkText
    \/ ChunkRaises
    \/ Analyze
    \/ SelectVoice
    \/ SkipBlank
    \/ SynthEnter
    \/ SynthClientRaises
    \/ Attempt
    \/ AppendSegment
    \/ DecodeFails
    \/ SaveFailedChunk
    \/ Export
    \/ CleanupRemove
    \/ ReturnPath

Spec == Init /\ [][Next]_vars

\* synthesize_audio is sequential code: as long as a step is possible the next
\* one is taken (every backend call returns)
SpecLive == Init /\ [][Next]_vars /\ WF_vars(Next)

\* ------------------------------------------------------------------------
\* DefaultTextChunker (specification SpecChunk)
\*
\* A string is a sequence of tokens.  A word token stands for a run of
\* letters and carries its length in characters and in UTF-8 bytes; the
\* other tokens are one space, one comma, one full stop and the paragraph
\* break "\n\n".
\* ------------------------------------------------------------------------
Word(chars, bytes) == [t |-> "w", c |-> chars, b |-> bytes]
SP == [t |-> "sp", c |-> 1, b |-> 1]
CM == [t |-> "cm", c |-> 1, b |-> 1]
DOT == [t |-> "dot", c |-> 1, b |-> 1]
PB == [t |-> "pb", c |-> 2, b |-> 2]

IsSpace(tok) == tok.t \in {"sp", "pb"}

\* the character class [,.?!] of re.split
IsPunct(tok) == tok.t \in {"cm", "dot"}

\* len(s.encode('utf-8'))
RECURSIVE Utf8Len(_)
Utf8Len(s) == IF s = <<>> THEN 0 ELSE Head(s).b + Utf8Len(Tail(s))

\* len(s)
RECURSIVE CharLen(_)
CharLen(s) == IF s = <<>> THEN 0 ELSE Head(s).c + CharLen(Tail(s))

\* s.strip()
RECURSIVE LStrip(_)
LStrip(s) == IF s # <<>> /\ IsSpace(Head(s)) THEN LStrip(Tail(s)) ELSE s

RECURSIVE RStrip(_)
RStrip(s) ==
    IF s # <<>> /\ IsSpace(s[Len(s)]) THEN RStrip(SubSeq(s, 1, Len(s) - 1)) ELSE s

Strip(s) == RStrip(LStrip(s))

\* text.split('\n\n'); cur is the piece being read
RECURSIVE SplitParagraphs(_, _)
SplitParagraphs(s, cur) ==
    IF s = <<>> THEN <<cur>>
    ELSE IF Head(s).t = "pb"
         THEN <<cur>> \o SplitParagraphs(Tail(s), <<>>)
         ELSE SplitParagraphs(Tail(s), Append(cur, Head(s)))

\* sentence.split(): the maximal runs of non-whitespace
RECURSIVE SplitWords(_, _)
SplitWords(s, cur) ==
    LET done == IF cur = <<>> THEN <<>> ELSE <<cur>> IN
    IF s = <<>> THEN done
    ELSE IF IsSpace(Head(s))
         THEN done \o SplitWords(Tail(s), <<>>)
         ELSE SplitWords(Tail(s), Append(cur, Head(s)))

\* mutant: re.split(r'[,.?!]', sentence), the delimiters are not kept
RECURSIVE PunctPartsOnly(_, _)
PunctPartsOnly(s, cur) ==
    IF s = <<>> THEN <<cur>>
    ELSE IF IsPunct(Head(s))
         THEN <<cur>> \o PunctPartsOnly(Tail(s), <<>>)
         ELSE PunctPartsOnly(Tail(s), Append(cur, Head(s)))

\* re.split(r'([,.?!])', sentence) with each piece joined to the delimiter
\* that follows it: the last part is what follows the last delimiter
RECURSIVE PunctParts(_, _)
PunctParts(s, cur) ==
    IF s = <<>> THEN <<cur>>
    ELSE IF IsPunct(Head(s))
         THEN <<Append(cur, Head(s))>> \o PunctParts(Tail(s), <<>>)
         ELSE PunctParts(Tail(s), Append(cur, Head(s)))

\* nltk.sent_tokenize(para): a library call.  A sentence may end at a full
\* stop that is followed by whitespace; whether it does at a given full stop
\* is the tokenizer's decision, so every choice is a possible result.  The
\* sentences come back without the whitespace between them.
RECURSIVE SentTokenize(_, _)
SentTokenize(s, cur) ==
    IF s = <<>>
    THEN {IF Strip(cur) = <<>> THEN <<>> ELSE <<Strip(cur)>>}
    ELSE LET upto == Append(cur, Head(s))
             goOn == SentTokenize(Tail(s), upto)
         IN  IF Head(s).t = "dot" /\ Len(s) >= 2 /\ IsSpace(s[2])
             THEN goOn \cup {<<Strip(upto)>> \o r : r \in SentTokenize(Tail(s), <<>>)}
             ELSE goOn

\* the concatenation of a list of strings
RECURSIVE Flatten(_)
Flatten(ss) == IF ss = <<>> THEN <<>> ELSE Head(ss) \o Flatten(Tail(ss))

MAX_BYTES_PER_CHUNK == 5000
MAX_BYTES_PER_SENTENCE == 900

\* mutant: the word fallback returns the words joined again, whatever their
\* length
AccumulateAll(words, cur, acc) ==
    IF words = <<>> THEN acc
    ELSE <<Flatten([n \in DOMAIN words |->
                     IF n = 1 THEN words[n] ELSE <<SP>> \o words[n]])>>

\* the word-accumulation loop of _split_long_sentence
RECURSIVE Accumulate(_, _, _)
Accumulate(words, cur, acc) ==
    IF words = <<>>
    THEN IF cur # <<>> THEN Append(acc, Strip(cur)) ELSE acc
    ELSE LET word == Head(words) IN
         IF Utf8Len(cur \o <<SP>> \o word) <= MAX_BYTES_PER_SENTENCE
         THEN Accumulate(Tail(words), cur \o <<SP>> \o word, acc)
         ELSE Accumulate(Tail(words), word, Append(acc, Strip(cur)))

\* _split_long_sentence
SplitLongSentence(sentence) ==
    IF Utf8Len(sentence) <= MAX_BYTES_PER_SENTENCE THEN <<sentence>>
    ELSE LET parts == PunctParts(sentence, <<>>) IN
         IF \A n \in DOMAIN parts : Utf8Len(parts[n]) <= MAX_BYTES_PER_SENTENCE
         THEN parts
         ELSE Accumulate(SplitWords(sentence, <<>>), <<>>, <<>>)

\* mutant: the limit is compared with the number of characters
FitsChars(s, limit) == CharLen(s) <= limit

\* len(s.encode('utf-8')) <= limit, the comparison of the packing loop and of
\* the final sanity check
Fits(s, limit) == Utf8Len(s) <= limit

\* the first index whose chunk is over the limit, 0 when there is none
FirstOversized(cs) ==
    LET bad == {n \in DOMAIN cs : ~Fits(cs[n], MAX_BYTES_PER_CHUNK)} IN
    IF bad = {} THEN 0 ELSE CHOOSE n \in bad : \A o \in bad : n <= o

\* ------------------------------------------------------------ input texts
\* the longest text, in words
MaxWords == 3

\* A short word, a long one of three-byte characters (over the sentence limit,
\* and with a full stop exactly half the chunk limit), one of exactly the chunk
\* limit, and one of 1667 three-byte characters, over the chunk limit in bytes
\* only.
Words == {Word(400, 400), Word(833, 2499), Word(2500, 5000), Word(1667, 5001)}

\* what may follow a word: " ", ", ", ". " or a paragraph break
Separators == {<<SP>>, <<CM, SP>>, <<DOT, SP>>, <<PB>>}

\* the texts made of words, and one of whitespace only
Texts ==
    {Flatten(items) :
        items \in SeqsUpTo({<<w>> \o sep : w \in Words, sep \in Separators}, MaxWords)}
        \cup {<<SP, PB, SP>>}

PipelineIdle ==
    /\ pc = "idle"
    /\ foreign = FALSE
    /\ chunks = <<>>
    /\ i = 0
    /\ voice_params = "unset"
    /\ temp_files = {}
    /\ attempt = 0
    /\ backend = NoBackend
    /\ calls = 0
    /\ sleeps = 0
    /\ outcome = <<>>
    /\ combined_audio = <<>>
    /\ output_file = Absent
    /\ result = "pending"
    /\ temp_dir = foreign
    /\ log = <<>>
    /\ total_calls = 0

InitChunk ==
    /\ PipelineIdle
    /\ SelectorIdle
    /\ TextIdle
    /\ text \in Texts
    /\ cpc = "start"
    /\ paragraphs = <<>>
    /\ sentences = <<>>
    /\ sentence_parts = <<>>
    /\ current_chunk = <<>>
    /\ chunk_list = <<>>
    /\ cresult = "pending"

\* paragraphs = text.split('\n\n')
SplitText ==
    /\ cpc = "start"
    /\ paragraphs' = SplitParagraphs(text, <<>>)
    /\ cpc' = "para"
    /\ UNCHANGED <<text, sentences, sentence_parts, current_chunk, chunk_list,
                   cresult>>
    /\ UNCHANGED <<pvars, svars, tvars>>

\* for para in paragraphs: para = para.strip(); if not para: continue;
\* sentences = nltk.sent_tokenize(para)
NextParagraph ==
    /\ cpc = "para"
    /\ paragraphs # <<>>
    /\ LET para == Strip(Head(paragraphs)) IN
        IF para = <<>>
        THEN UNCHANGED <<cpc, sentences>>
        ELSE /\ sentences' \in SentTokenize(para, <<>>)
             /\ cpc' = "sentence"
    /\ paragraphs' = Tail(paragraphs)
    /\ UNCHANGED <<text, sentence_parts, current_chunk, chunk_list, cresult>>
    /\ UNCHANGED <<pvars, svars, tvars>>

\* for sentence in sentences: sentence_parts = self._split_long_sentence(sentence)
NextSentence ==
    /\ cpc = "sentence"
    /\ IF sentences = <<>>
       THEN cpc' = "para" /\ UNCHANGED <<sentences, sentence_parts>>
       ELSE /\ sentence_parts' = SplitLongSentence(Head(sentences))
            /\ sentences' = Tail(sentences)
            /\ cpc' = "part"
    /\ UNCHANGED <<text, paragraphs, current_chunk, chunk_list, cresult>>
    /\ UNCHANGED <<pvars, svars, tvars>>

\* for s_part in sentence_parts: the packing step
PackPart ==
    /\ cpc = "part"
    /\ IF sentence_parts = <<>>
       THEN cpc' = "sentence" /\ UNCHANGED <<sentence_parts, current_chunk, chunk_list>>
       ELSE LET s_part == Head(sentence_parts) IN
            /\ sentence_parts' = Tail(sentence_parts)
            /\ cpc' = cpc
            /\ IF ~Fits(current_chunk \o <<SP>> \o s_part, MAX_BYTES_PER_CHUNK)
               THEN /\ current_chunk' = s_part
                    /\ chunk_list' = IF current_chunk # <<>>
                                     THEN Append(chunk_list, Strip(current_chunk))
                                     ELSE chunk_list
               ELSE /\ current_chunk' = IF current_chunk # <<>>
                                        THEN current_chunk \o <<SP>> \o s_part
                                        ELSE s_part
                    /\ chunk_list' = chunk_list
    /\ UNCHANGED <<text, paragraphs, sentences, cresult>>
    /\ UNCHANGED <<pvars, svars, tvars>>

\* after the loops: the last chunk is appended, every chunk is checked, and
\* the list is returned or ChunkingError is raised
FinishChunking ==
    /\ cpc = "para"
    /\ paragraphs = <<>>
    /\ LET final == IF current_chunk # <<>>
                    THEN Append(chunk_list, Strip(current_chunk))
                    ELSE chunk_list
       IN  /\ chunk_list' = final
           /\ cresult' = IF FirstOversized(final) = 0 THEN "returned"
                         ELSE "ChunkingError"
    /\ cpc' = "done"
    /\ UNCHANGED <<text, paragraphs, sentences, sentence_parts, current_chunk>>
    /\ UNCHANGED <<pvars, svars, tvars>>

NextChunking ==
    \/ SplitText
    \/ NextParagraph
    \/ NextSentence
    \/ PackPart
    \/ FinishChunking

SpecChunk == InitChunk /\ [][NextChunking]_vars

\* ------------------------------------------------------------------------
\* Properties of DefaultTextChunker.chunk (specification SpecChunk)
\* ------------------------------------------------------------------------
\* the text without its whitespace
NonSpace(s) == SelectSeq(s, LAMBDA tok : ~IsSpace(tok))

\* C1: chunk either returns a list whose chunks are all at most
\* MAX_BYTES_PER_CHUNK bytes long, or raises ChunkingError; a returned list
\* holds the whole text (nothing is cut off to make a chunk fit).
C1_SizeOrError ==
    /\ cpc = "done" => cresult \in {"returned", "ChunkingError"}
    /\ cresult = "returned" =>
        /\ \A n \in DOMAIN chunk_list : Utf8Len(chunk_list[n]) <= MAX_BYTES_PER_CHUNK
        /\ NonSpace(Flatten(chunk_list)) = NonSpace(text)
    /\ cresult = "ChunkingError" =>
        \E n \in DOMAIN chunk_list : Utf8Len(chunk_list[n]) > MAX_BYTES_PER_CHUNK

\* a text that had to be cut into several chunks, all within the limit
C1_Witness ==
    /\ cresult = "returned"
    /\ Len(chunk_list) >= 2
    /\ \E n \in DOMAIN chunk_list : Utf8Len(chunk_list[n]) > MAX_BYTES_PER_SENTENCE

\* a text with a word over the limit, refused
C1_WitnessError ==
    /\ cresult = "ChunkingError"
    /\ \E n \in DOMAIN text : text[n].b > MAX_BYTES_PER_CHUNK

\* an empty or whitespace-only text yields no chunks (the case of C20)
BlankTextNoChunks ==
    (cpc = "done" /\ NonSpace(text) = <<>>) => (cresult = "returned" /\ chunk_list = <<>>)

\* the whitespace-delimited words of the text
RealWords == \A w \in Elems(SplitWords(text, <<>>)) : Utf8Len(w) <= MAX_BYTES_PER_CHUNK

\* C13: chunk never raises ChunkingError for a text in which every
\* whitespace-delimited word is at most MAX_BYTES_PER_CHUNK bytes long,
\* whatever the sentence and paragraph lengths, multi-byte characters included.
C13_NoErrorForRealWords ==
    RealWords => cresult # "ChunkingError"

\* a sentence of over-long multi-byte words, cut by the word fallback into
\* parts that each became a chunk, one of them exactly at the limit
C13_Witness ==
    /\ cresult = "returned"
    /\ RealWords
    /\ Utf8Len(text) > MAX_BYTES_PER_CHUNK
    /\ \E n \in DOMAIN chunk_list : chunk_list[n] = <<Word(2500, 5000)>>
    /\ \E n \in DOMAIN chunk_list : chunk_list[n] = <<Word(833, 2499)>>

\* C26 as stated: a sentence that fits under the chunk limit is never split;
\* _split_long_sentence returns it as its only part.
C26_Original ==
    [][(cpc = "sentence" /\ cpc' = "part" /\ Fits(Head(sentences), MAX_BYTES_PER_CHUNK))
            => sentence_parts' = <<Head(sentences)>>]_vars

\* what does hold: a sentence within the sentence limit is never split
C26_ShortSentenceKept ==
    [][(cpc = "sentence" /\ cpc' = "part"
            /\ Fits(Head(sentences), MAX_BYTES_PER_SENTENCE))
            => sentence_parts' = <<Head(sentences)>>]_vars

\* C27 as stated: a chunk is closed only when the returned chunk, one space
\* and the part that starts the next chunk would exceed the chunk limit.
C27_Original ==
    [][(cpc = "part" /\ Len(chunk_list') = Len(chunk_list) + 1)
            => ~Fits(chunk_list'[Len(chunk_list')] \o <<SP>> \o Head(sentence_parts),
                     MAX_BYTES_PER_CHUNK)]_vars

\* what does hold: a chunk is closed only when the chunk being filled with its
\* surrounding whitespace, one space and the next part exceed the limit
C27_ClosedWhenFull ==
    [][(cpc = "part" /\ Len(chunk_list') = Len(chunk_list) + 1)
            => ~Fits(current_chunk \o <<SP>> \o Head(sentence_parts),
                     MAX_BYTES_PER_CHUNK)]_vars

\* the text still held by chunk: the chunks made, the chunk being filled and
\* what is still to be visited
Held ==
    Flatten(chunk_list) \o current_chunk \o Flatten(sentence_parts)
        \o Flatten(sentences) \o Flatten(paragraphs)

\* C14: the chunks returned, concatenated in index order, are the input text
\* up to whitespace: no other character is lost, duplicated or moved, at any
\* level of splitting (paragraph, sentence, punctuation, word fallback).
C14_TextPreserved ==
    /\ cpc \in {"para", "sentence", "part"} => NonSpace(Held) = NonSpace(text)
    /\ cresult = "returned" => NonSpace(Flatten(chunk_list)) = NonSpace(text)

\* a sentence over the sentence limit, cut at its commas and packed into one
\* chunk that holds all three words and both commas
C14_Witness ==
    /\ cresult = "returned"
    /\ text = <<Word(400, 400), CM, SP, Word(400, 400), CM, SP, Word(400, 400), SP>>
    /\ Len(chunk_list) = 1
    /\ NonSpace(chunk_list[1]) =
            <<Word(400, 400), CM, Word(400, 400), CM, Word(400, 400)>>

\* ------------------------------------------------------------------------
\* GoogleTTSVoiceSelector (specification SpecVoice)
\*
\* A voice name, a category name and a language code are strings; here a
\* string is the sequence of its words ("en-US-Studio-Q" is
\* <<"en", "US", "Studio", "Q">>), `a in b` is "a is a run of consecutive
\* words of b" and == is equality.  sentiment_score is counted in tenths,
\* pitch in hundredths of a semitone and speaking_rate in millionths.
\* ------------------------------------------------------------------------
\* sub in s
In(sub, s) ==
    \E k \in 1 .. Len(s) - Len(sub) + 1 : SubSeq(s, k, k + Len(sub) - 1) = sub

\* len(language_code), for codes made of two-letter parts joined by "-"
StrLen(code) == IF code = <<>> THEN 0 ELSE 3 * Len(code) - 1

\* language_code[:2]
Prefix2(code) == <<code[1]>>

GENERIC_TO_REGIONAL_MAP ==
    [g \in {<<"en">>, <<"fr">>, <<"de">>, <<"es">>, <<"zh">>} |->
        CASE g = <<"en">> -> {<<"en", "US">>, <<"en", "GB">>, <<"en", "AU">>, <<"en", "IN">>}
          [] g = <<"fr">> -> {<<"fr", "FR">>, <<"fr", "CA">>}
          [] g = <<"de">> -> {<<"de", "DE">>}
          [] g = <<"es">> -> {<<"es", "ES">>, <<"es", "US">>, <<"es", "MX">>}
          [] g = <<"zh">> -> {<<"zh", "CN">>, <<"zh", "TW">>, <<"zh", "HK">>}]

\* codes_to_check of get_available_voices
CodesToCheck(language_code) ==
    IF StrLen(language_code) = 2 /\ language_code \in DOMAIN GENERIC_TO_REGIONAL_MAP
    THEN {language_code} \cup GENERIC_TO_REGIONAL_MAP[language_code]
    ELSE IF StrLen(language_code) = 5
            /\ Prefix2(language_code) \in DOMAIN GENERIC_TO_REGIONAL_MAP
         THEN {language_code, Prefix2(language_code)}
         ELSE {language_code}

RECURSIVE Repeat(_, _)
Repeat(v, n) == IF n = 0 THEN <<>> ELSE <<v>> \o Repeat(v, n - 1)

\* [v for v in voices for voice_lang_code in v.language_codes
\*    if voice_lang_code in codes_to_check]: one entry per matching code
RECURSIVE FilterVoices(_, _)
FilterVoices(voices, codes) ==
    IF voices = <<>> THEN <<>>
    ELSE LET v == Head(voices)
             hits == {n \in DOMAIN v.language_codes : v.language_codes[n] \in codes}
         IN  Repeat(v, Cardinality(hits)) \o FilterVoices(Tail(voices), codes)

\* get_available_voices fetches only if the cache is empty
NeedsFetch(cache) == cache = <<>>

\* the cache after get_available_voices; fetched: list_voices answered
CacheAfter(cache, fetched) ==
    IF NeedsFetch(cache) /\ fetched THEN service ELSE cache

\* the list get_available_voices(language_code) returns
VoicesReturned(cache, language_code, fetched) ==
    IF NeedsFetch(cache) /\ ~fetched THEN <<>>
    ELSE IF language_code = NoCode THEN CacheAfter(cache, fetched)
    ELSE FilterVoices(CacheAfter(cache, fetched), CodesToCheck(language_code))

\* the hardcoded default
RATE_ONE == 1000000
DefaultProfile ==
    [name |-> <<"en", "US", "Wavenet", "B">>, pitch |-> 0, speaking_rate |-> RATE_ONE,
     language_code |-> <<"en", "US">>, voice_gender |-> "NEUTRAL"]

\* mutant: there is no except clause, the exception leaves the method
PropagateException == [status |-> "raised", profile |-> NoProfile]

\* except Exception: return the hardcoded default
OnException == [status |-> "returned", profile |-> DefaultProfile]

voice_quality_order == <<"Chirp", "Studio", "Neural2", "Wavenet", "Standard">>

\* preferred_voices_list_order: the non-empty lists, best type first
Buckets(voices) ==
    LET listOf(type) == SelectSeq(voices, LAMBDA v : In(<<type>>, v.name))
        all == [n \in DOMAIN voice_quality_order |-> listOf(voice_quality_order[n])]
        kept == SelectSeq(all, LAMBDA l : l # <<>>)
    IN  IF kept = <<>> THEN <<voices>> ELSE kept

\* mutant: the sentiment is looked at after the categories and wins
TargetGenderSentimentLast(preference, score, cats) ==
    IF preference = "UNSPECIFIED" THEN "NEUTRAL"
    ELSE IF preference # "NONE" THEN preference
    ELSE IF score > 5 THEN "FEMALE"
    ELSE IF score < -5 THEN "MALE"
    ELSE IF \E n \in DOMAIN cats : In(<<"Romance">>, cats[n]) THEN "FEMALE"
    ELSE "NEUTRAL"

\* mutant: the gender is inferred even when a preference is given
TargetGenderInferred(preference, score, cats) ==
    IF \E n \in DOMAIN cats : In(<<"Romance">>, cats[n]) THEN "FEMALE"
    ELSE IF \E n \in DOMAIN cats :
                cats[n] \in {<<"News">>, <<"Business", "&", "Industrial">>, <<"Science">>}
         THEN "NEUTRAL"
    ELSE IF score > 5 THEN "FEMALE"
    ELSE IF score < -5 THEN "MALE"
    ELSE "NEUTRAL"

\* target_gender; a preference of SSML_VOICE_GENDER_UNSPECIFIED (0) is falsy
\* but not None: it becomes NEUTRAL and nothing is inferred
TargetGender(preference, score, cats) ==
    IF preference = "UNSPECIFIED" THEN "NEUTRAL"
    ELSE IF preference # "NONE" THEN preference
    ELSE IF \E n \in DOMAIN cats : In(<<"Romance">>, cats[n]) THEN "FEMALE"
    ELSE IF \E n \in DOMAIN cats :
                cats[n] \in {<<"News">>, <<"Business", "&", "Industrial">>, <<"Science">>}
         THEN "NEUTRAL"
    ELSE IF score > 5 THEN "FEMALE"
    ELSE IF score < -5 THEN "MALE"
    ELSE "NEUTRAL"

\* the first list, best type first, that holds a voice of gender g: its voices
\* of that gender
FirstOfGender(lists, g) ==
    LET ofGender(l) == SelectSeq(l, LAMBDA v : v.ssml_gender = g)
        with == {n \in DOMAIN lists : ofGender(lists[n]) # <<>>}
    IN  IF with = {} THEN <<>>
        ELSE ofGender(lists[CHOOSE n \in with : \A m \in with : n <= m])

\* mutant: the best list is used whatever the gender of its voices
CandidatesBestList(lists, target) == lists[1]

\* the list random.choice draws from
Candidates(lists, target) ==
    IF FirstOfGender(lists, target) # <<>> THEN FirstOfGender(lists, target)
    ELSE IF FirstOfGender(lists, "NEUTRAL") # <<>> THEN FirstOfGender(lists, "NEUTRAL")
    ELSE lists[1]

PITCH_SENSITIVITY == 40
RATE_SENSITIVITY == 10000

\* r * (pct / 100)
Scale(r, pct) == (r * pct) \div 100

Prosody(p, r) == [pitch |-> p, rate |-> r]

\* mutant: a news, business or education category leaves the values as they are
CategoryStepNoReset(cat, pr) ==
    IF In(<<"Science", "Fiction">>, cat) \/ In(<<"Fantasy">>, cat)
    THEN Prosody(pr.pitch - 100, Scale(pr.rate, 95))
    ELSE IF In(<<"Romance">>, cat)
    THEN Prosody(pr.pitch + 150, Scale(pr.rate, 103))
    ELSE IF In(<<"Poetry">>, cat) \/ In(<<"Literature">>, cat)
    THEN Prosody(pr.pitch - 50, Scale(pr.rate, 90))
    ELSE IF In(<<"Mystery">>, cat) \/ In(<<"Thriller">>, cat)
    THEN Prosody(pr.pitch - 80, Scale(pr.rate, 97))
    ELSE pr

\* one pass of `for cat in categories`
CategoryStep(cat, pr) ==
    IF In(<<"Science", "Fiction">>, cat) \/ In(<<"Fantasy">>, cat)
    THEN Prosody(pr.pitch - 100, Scale(pr.rate, 95))
    ELSE IF In(<<"Romance">>, cat)
    THEN Prosody(pr.pitch + 150, Scale(pr.rate, 103))
    ELSE IF cat \in {<<"News">>, <<"Business", "&", "Industrial">>, <<"Education">>}
    THEN Prosody(0, RATE_ONE)
    ELSE IF In(<<"Poetry">>, cat) \/ In(<<"Literature">>, cat)
    THEN Prosody(pr.pitch - 50, Scale(pr.rate, 90))
    ELSE IF In(<<"Mystery">>, cat) \/ In(<<"Thriller">>, cat)
    THEN Prosody(pr.pitch - 80, Scale(pr.rate, 97))
    ELSE pr

\* the syntax adjustment
SyntaxStep(si, pr) ==
    IF si.present /\ si.num_sentences > 0
    THEN IF si.avg_tokens_per_sentence > 20
            \/ 10 * si.num_complex_clauses > 3 * si.num_sentences
         THEN Prosody(pr.pitch - 50, Scale(pr.rate, 90))
         ELSE IF si.avg_tokens_per_sentence < 10
              THEN Prosody(pr.pitch, Scale(pr.rate, 105))
              ELSE pr
    ELSE pr

\* mutant: pitch and speaking_rate are returned as computed
ClampNone(pr) == pr

Max(a, b) == IF a >= b THEN a ELSE b
Min(a, b) == IF a <= b THEN a ELSE b

\* pitch = max(-20.0, min(20.0, pitch)); speaking_rate = max(0.25, min(4.0, ...))
Clamp(pr) ==
    Prosody(Max(-2000, Min(2000, pr.pitch)), Max(250000, Min(4000000, pr.rate)))

\* mutant: only the Chirp voices are treated as fixed
OnlyChirp(name) == In(<<"Chirp">>, name)

\* if "Chirp" in selected_voice.name or "Studio" in selected_voice.name
NoProsodySupport(name) == In(<<"Chirp">>, name) \/ In(<<"Studio">>, name)

\* if sentiment_score != 0.0: pitch += ...; speaking_rate += ...
SentimentStep(score) ==
    Prosody(score * PITCH_SENSITIVITY, RATE_ONE + score * (RATE_SENSITIVITY \div 2))

\* pitch and speaking_rate as returned, from their values after the categories
FinalProsody(voice, pr, si) ==
    LET adjusted == Clamp(SyntaxStep(si, pr))
    IN  IF NoProsodySupport(voice.name)
           /\ (adjusted.pitch # 0 \/ adjusted.rate # RATE_ONE)
        THEN Prosody(0, RATE_ONE)
        ELSE adjusted

\* ------------------------------------------------------------- the inputs
\* the longest category list
MaxCats == 2

Voice(name, codes, gender) ==
    [name |-> name, language_codes |-> codes, ssml_gender |-> gender]

ChirpF == Voice(<<"en", "US", "Chirp", "HD", "F">>, <<<<"en", "US">>>>, "FEMALE")
StudioM == Voice(<<"en", "US", "Studio", "Q">>, <<<<"en", "US">>>>, "MALE")
WavenetN == Voice(<<"en", "US", "Wavenet", "X">>, <<<<"en", "US">>>>, "NEUTRAL")
StandardF == Voice(<<"en", "US", "Standard", "C">>, <<<<"en", "US">>>>, "FEMALE")
NewsM == Voice(<<"en", "US", "News", "K">>, <<<<"en", "US">>>>, "MALE")
Neural2M == Voice(<<"en", "GB", "Neural2", "B">>, <<<<"en", "GB">>>>, "MALE")
MultiF == Voice(<<"en", "Wavenet", "Multi">>, <<<<"en", "GB">>, <<"en", "US">>>>, "FEMALE")
FrenchF == Voice(<<"fr", "FR", "Standard", "A">>, <<<<"fr", "FR">>>>, "FEMALE")
JapaneseF == Voice(<<"ja", "JP", "Standard", "A">>, <<<<"ja", "JP">>>>, "FEMALE")

\* what the service may list
Catalogs ==
    { <<>>,
      <<FrenchF>>,
      <<NewsM>>,
      <<ChirpF, StudioM, WavenetN, StandardF, NewsM>>,
      <<Neural2M, MultiF, FrenchF>>,
      <<ChirpF, WavenetN, JapaneseF>> }

\* (detected_language_code, regional_code_from_text)
LanguageInputs ==
    { <<<<"en">>, NoCode>>, <<<<"en">>, <<"en", "GB">>>>,
      <<<<"fr">>, NoCode>>, <<<<"ja">>, NoCode>> }

Sentiments == {-10, -6, 0, 5, 10}

CategoryNames == {<<"Romance">>, <<"News">>, <<"Science", "Fiction">>}

\* how often one category is repeated in the long lists
StackDepth == 50

\* the short lists, and one category repeated until pitch and rate leave
\* their ranges
CategoryLists ==
    SeqsUpTo(CategoryNames, MaxCats)
        \cup {Repeat(c, StackDepth) : c \in {<<"Science", "Fiction">>, <<"Romance">>}}

Genders == {"MALE", "FEMALE", "NEUTRAL"}

Syntax(n, avg, complex) ==
    [present |-> TRUE, wellformed |-> TRUE, num_sentences |-> n,
     avg_tokens_per_sentence |-> avg, num_complex_clauses |-> complex]

\* None, long sentences, many complex clauses, short sentences, and a dict
\* without the expected keys
SyntaxInfos ==
    { NoSyntax, Syntax(10, 25, 0), Syntax(10, 15, 4), Syntax(10, 5, 0),
      [NoSyntax EXCEPT !.present = TRUE, !.wellformed = FALSE] }

InitVoice ==
    /\ PipelineIdle
    /\ ChunkerIdle
    /\ TextIdle
    /\ spc = "lookup"
    /\ \E li \in LanguageInputs :
        /\ detected_language_code = li[1]
        /\ regional_code_from_text = li[2]
    /\ sentiment_score \in Sentiments
    /\ categories \in CategoryLists
    /\ syntax_info = NoSyntax
    /\ user_gender_preference \in Genders \cup {"NONE", "UNSPECIFIED"}
    /\ service \in Catalogs
    /\ available_voices = <<>>
    /\ list_voices_calls = 0
    /\ lookups = <<>>
    /\ voices_for_lang = <<>>
    /\ preferred_voices_list_order = <<>>
    /\ target_gender = "NONE"
    /\ selected_voice = NoVoice
    /\ pitch = 0
    /\ speaking_rate = 0
    /\ cat_index = 0
    /\ sstatus = "pending"
    /\ sprofile = NoProfile

\* one call of get_available_voices(code); list_voices may fail when called
Lookup(code, fetched) ==
    /\ voices_for_lang' = VoicesReturned(available_voices, code, fetched)
    /\ list_voices_calls' = list_voices_calls
                              + (IF NeedsFetch(available_voices) THEN 1 ELSE 0)
    /\ available_voices' = CacheAfter(available_voices, fetched)
    /\ lookups' = Append(lookups, code)

Outcomes(cache) == IF NeedsFetch(cache) THEN BOOLEAN ELSE {TRUE}

\* if regional_code_from_text and regional_code_from_text != detected_language_code
WillRetry ==
    regional_code_from_text # NoCode /\ regional_code_from_text # detected_language_code

\* voices_for_lang = self.get_available_voices(effective_language_search_code)
LookupVoices ==
    /\ spc = "lookup"
    /\ \E fetched \in Outcomes(available_voices) :
        Lookup(IF regional_code_from_text # NoCode THEN regional_code_from_text
               ELSE detected_language_code, fetched)
    /\ spc' = IF voices_for_lang' # <<>> THEN "tier"
              ELSE IF WillRetry THEN "retry" ELSE "fallback"
    /\ UNCHANGED <<detected_language_code, regional_code_from_text, sentiment_score,
                   categories, syntax_info, user_gender_preference, service,
                   preferred_voices_list_order, target_gender, selected_voice,
                   pitch, speaking_rate, cat_index, sstatus, sprofile>>
    /\ UNCHANGED <<pvars, cvars, tvars>>

\* voices_for_lang = self.get_available_voices(detected_language_code)
RetryGeneric ==
    /\ spc = "retry"
    /\ \E fetched \in Outcomes(available_voices) :
        Lookup(detected_language_code, fetched)
    /\ spc' = IF voices_for_lang' # <<>> THEN "tier" ELSE "fallback"
    /\ UNCHANGED <<detected_language_code, regional_code_from_text, sentiment_score,
                   categories, syntax_info, user_gender_preference, service,
                   preferred_voices_list_order, target_gender, selected_voice,
                   pitch, speaking_rate, cat_index, sstatus, sprofile>>
    /\ UNCHANGED <<pvars, cvars, tvars>>

\* if not voices_for_lang: return the hardcoded default
ReturnFallback ==
    /\ spc = "fallback"
    /\ sprofile' = DefaultProfile
    /\ sstatus' = "returned"
    /\ spc' = "done"
    /\ UNCHANGED <<detected_language_code, regional_code_from_text, sentiment_score,
                   categories, syntax_info, user_gender_preference, service,
                   available_voices, list_voices_calls, lookups, voices_for_lang,
                   preferred_voices_list_order, target_gender, selected_voice,
                   pitch, speaking_rate, cat_index>>
    /\ UNCHANGED <<pvars, cvars, tvars>>

\* the quality lists and the target gender
TierVoices ==
    /\ spc = "tier"
    /\ preferred_voices_list_order' = Buckets(voices_for_lang)
    /\ target_gender' = TargetGender(user_gender_preference, sentiment_score, categories)
    /\ spc' = "pick"
    /\ UNCHANGED <<detected_language_code, regional_code_from_text, sentiment_score,
                   categories, syntax_info, user_gender_preference, service,
                   available_voices, list_voices_calls, lookups, voices_for_lang,
                   selected_voice, pitch, speaking_rate, cat_index, sstatus, sprofile>>
    /\ UNCHANGED <<pvars, cvars, tvars>>

\* the three-stage pick; random.choice may return any element of its list
PickVoice ==
    /\ spc = "pick"
    /\ LET from == Candidates(preferred_voices_list_order, target_gender) IN
        \E n \in DOMAIN from : selected_voice' = from[n]
    /\ spc' = "prosody"
    /\ UNCHANGED <<detected_language_code, regional_code_from_text, sentiment_score,
                   categories, syntax_info, user_gender_preference, service,
                   available_voices, list_voices_calls, lookups, voices_for_lang,
                   preferred_voices_list_order, target_gender, pitch, speaking_rate,
                   cat_index, sstatus, sprofile>>
    /\ UNCHANGED <<pvars, cvars, tvars>>

\* the sentiment adjustment of pitch and speaking_rate
AdjustForSentiment ==
    /\ spc = "prosody"
    /\ pitch' = SentimentStep(sentiment_score).pitch
    /\ speaking_rate' = SentimentStep(sentiment_score).rate
    /\ cat_index' = 0
    /\ spc' = "categories"
    /\ UNCHANGED <<detected_language_code, regional_code_from_text, sentiment_score,
                   categories, syntax_info, user_gender_preference, service,
                   available_voices, list_voices_calls, lookups, voices_for_lang,
                   preferred_voices_list_order, target_gender, selected_voice,
                   sstatus, sprofile>>
    /\ UNCHANGED <<pvars, cvars, tvars>>

\* one pass of `for cat in categories`
AdjustForCategory ==
    /\ spc = "categories"
    /\ cat_index < Len(categories)
    /\ LET pr == CategoryStep(categories[cat_index + 1], Prosody(pitch, speaking_rate)) IN
        /\ pitch' = pr.pitch
        /\ speaking_rate' = pr.rate
    /\ cat_index' = cat_index + 1
    /\ UNCHANGED <<spc, detected_language_code, regional_code_from_text,
                   sentiment_score, categories, syntax_info, user_gender_preference,
                   service, available_voices, list_voices_calls, lookups,
                   voices_for_lang, preferred_voices_list_order, target_gender,
                   selected_voice, sstatus, sprofile>>
    /\ UNCHANGED <<pvars, cvars, tvars>>

\* after the loop: the syntax adjustment, the clamp, the Chirp/Studio reset and
\* the return.  The argument syntax_info is first read here, so its value is
\* chosen here; a syntax_info without the expected keys raises KeyError inside
\* the try.
ReturnProfile ==
    /\ spc = "categories"
    /\ cat_index = Len(categories)
    /\ \E si \in SyntaxInfos :
        /\ syntax_info' = si
        /\ IF si.present /\ ~si.wellformed
           THEN /\ sstatus' = OnException.status
                /\ sprofile' = OnException.profile
                /\ UNCHANGED <<pitch, speaking_rate>>
           ELSE LET pr == FinalProsody(selected_voice, Prosody(pitch, speaking_rate), si) IN
                /\ pitch' = pr.pitch
                /\ speaking_rate' = pr.rate
                /\ sstatus' = "returned"
                /\ sprofile' = [name |-> selected_voice.name,
                                pitch |-> pr.pitch,
                                speaking_rate |-> pr.rate,
                                language_code |-> selected_voice.language_codes[1],
                                voice_gender |-> selected_voice.ssml_gender]
    /\ spc' = "done"
    /\ UNCHANGED <<detected_language_code, regional_code_from_text, sentiment_score,
                   categories, user_gender_preference, service, available_voices,
                   list_voices_calls, lookups, voices_for_lang,
                   preferred_voices_list_order, target_gender, selected_voice,
                   cat_index>>
    /\ UNCHANGED <<pvars, cvars, tvars>>

NextVoice ==
    \/ LookupVoices
    \/ RetryGeneric
    \/ ReturnFallback
    \/ TierVoices
    \/ PickVoice
    \/ AdjustForSentiment
    \/ AdjustForCategory
    \/ ReturnProfile

SpecVoice == InitVoice /\ [][NextVoice]_vars

\* ------------------------------------------------------------------------
\* Properties of get_contextual_voice_parameters (specification SpecVoice)
\* ------------------------------------------------------------------------
\* C9: get_contextual_voice_parameters never raises; when the catalog yields
\* no voice for the requested language (after the retry with the generic
\* code) or cannot be fetched, it returns the hardcoded default profile.
C9_NeverRaises ==
    /\ sstatus # "raised"
    /\ spc = "done" => sstatus = "returned"
    /\ (spc = "done" /\ (voices_for_lang = <<>> \/ available_voices = <<>>)) =>
        sprofile = DefaultProfile

\* the regional lookup and the generic retry both came back empty although
\* the service lists voices
C9_Witness ==
    /\ spc = "done"
    /\ lookups = << <<"en", "GB">>, <<"en">> >>
    /\ available_voices # <<>>
    /\ voices_for_lang = <<>>
    /\ sprofile = DefaultProfile

\* C11: every returned profile, the fallback included, has pitch within
\* [-20, 20] semitones and speaking rate within [0.25, 4.0], however many
\* categories stack.
C11_WithinRange ==
    sstatus = "returned" =>
        /\ sprofile.pitch \in -2000 .. 2000
        /\ sprofile.speaking_rate \in 250000 .. 4000000

\* fifty Science Fiction categories on the most negative sentiment: both
\* values end on their lower limit
C11_Witness ==
    /\ sstatus = "returned"
    /\ sentiment_score = -10
    /\ categories = Repeat(<<"Science", "Fiction">>, StackDepth)
    /\ selected_voice = NewsM
    /\ sprofile.name = NewsM.name
    /\ sprofile.pitch = -2000
    /\ sprofile.speaking_rate = 250000

\* fifty Romance categories on the most positive sentiment: both values end
\* on their upper limit
C11_WitnessUpper ==
    /\ sstatus = "returned"
    /\ categories = Repeat(<<"Romance">>, StackDepth)
    /\ sprofile.pitch = 2000
    /\ sprofile.speaking_rate = 4000000

\* C18 as stated: however many times get_available_voices is called,
\* client.list_voices() is called at most once, and a cache that has been
\* filled is not fetched again.
C18_Original ==
    list_voices_calls <= 1

\* what does hold: a cache that holds voices is never replaced
C18_FilledCacheKept ==
    [][available_voices # <<>> =>
        (available_voices' = available_voices /\ list_voices_calls' = list_voices_calls)]_vars

\* the best list that holds a voice of gender g (0: there is none)
BestWith(g) ==
    LET with == {n \in DOMAIN preferred_voices_list_order :
                    \E v \in Elems(preferred_voices_list_order[n]) : v.ssml_gender = g}
    IN  IF with = {} THEN 0 ELSE CHOOSE n \in with : \A m \in with : n <= m

\* C21: the selected voice has the target gender and comes from the best list
\* holding such a voice; failing that it is NEUTRAL and comes from the best
\* list holding a NEUTRAL voice; failing that it comes from the best list.
C21_ThreeStagePick ==
    selected_voice # NoVoice =>
        IF BestWith(target_gender) # 0
        THEN /\ selected_voice.ssml_gender = target_gender
             /\ selected_voice \in Elems(preferred_voices_list_order[BestWith(target_gender)])
        ELSE IF BestWith("NEUTRAL") # 0
        THEN /\ selected_voice.ssml_gender = "NEUTRAL"
             /\ selected_voice \in Elems(preferred_voices_list_order[BestWith("NEUTRAL")])
        ELSE selected_voice \in Elems(preferred_voices_list_order[1])

\* the MALE Studio voice is picked although the Chirp list, one tier up, holds
\* a voice (a FEMALE one)
C21_Witness ==
    /\ target_gender = "MALE"
    /\ Len(preferred_voices_list_order) >= 2
    /\ ChirpF \in Elems(preferred_voices_list_order[1])
    /\ BestWith("MALE") = 2
    /\ selected_voice = StudioM

\* no MALE voice: the NEUTRAL Wavenet voice is picked, two tiers below Chirp
C21_WitnessNeutral ==
    /\ target_gender = "MALE"
    /\ BestWith("MALE") = 0
    /\ BestWith("NEUTRAL") > 1
    /\ selected_voice.ssml_gender = "NEUTRAL"

\* neither a MALE nor a NEUTRAL voice: a voice of the best list is picked
C21_WitnessAny ==
    /\ target_gender = "MALE"
    /\ BestWith("MALE") = 0
    /\ BestWith("NEUTRAL") = 0
    /\ selected_voice = FrenchF

\* C22 as stated: the quality lists are a partition of the voices found for the
\* language: every such voice is in exactly one list.
C22_Original ==
    preferred_voices_list_order # <<>> =>
        \A v \in Elems(voices_for_lang) :
            Cardinality({n \in DOMAIN preferred_voices_list_order :
                            v \in Elems(preferred_voices_list_order[n])}) = 1

\* what does hold: no voice is in two lists, and the lists hold only voices
\* found for the language
C22_ListsDisjoint ==
    \A n \in DOMAIN preferred_voices_list_order :
        /\ preferred_voices_list_order[n] # <<>>
        /\ Elems(preferred_voices_list_order[n]) \subseteq Elems(voices_for_lang)
        /\ \A m \in DOMAIN preferred_voices_list_order :
            m # n => Elems(preferred_voices_list_order[m])
                        \cap Elems(preferred_voices_list_order[n]) = {}

C23_WitnessRomance ==
    /\ user_gender_preference = "NONE"
    /\ sentiment_score = -10
    /\ categories = << <<"Romance">> >>
    /\ target_gender = "FEMALE"

\* a sentiment of exactly 0.5 without categories: NEUTRAL
C23_WitnessBoundary ==
    /\ user_gender_preference = "NONE"
    /\ sentiment_score = 5
    /\ categories = <<>>
    /\ target_gender = "NEUTRAL"

\* the voices of the fetched catalogue that speak the detected language
SpeakRequested ==
    {v \in Elems(available_voices) :
        \E n \in DOMAIN v.language_codes :
            Prefix2(v.language_codes[n]) = Prefix2(detected_language_code)}

\* the lookups follow the stated order: regional code if present, else the
\* language code; a second lookup only with the bare language code after a
\* distinct regional code; the fallback only after the last lookup was empty
C24_LookupOrder ==
    /\ lookups # <<>> =>
        lookups[1] = (IF regional_code_from_text # NoCode
                      THEN regional_code_from_text ELSE detected_language_code)
    /\ Len(lookups) <= 2
    /\ Len(lookups) = 2 => WillRetry /\ lookups[2] = detected_language_code
    /\ spc = "fallback" =>
        /\ voices_for_lang = <<>>
        /\ Len(lookups) = (IF WillRetry THEN 2 ELSE 1)

\* C24 as stated: in addition the hardcoded fallback is never taken while the
\* catalogue holds a voice for the requested language.
C24_Original ==
    /\ C24_LookupOrder
    /\ spc = "fallback" => SpeakRequested = {}

\* the loop over the categories starts from the sentiment contribution
C25_Start ==
    (spc = "categories" /\ cat_index = 0) =>
        /\ pitch = sentiment_score * 40
        /\ speaking_rate = 1000000 + sentiment_score * 5000

\* one category of the list is applied to the running values
C25_Step ==
    (spc = "categories" /\ cat_index' = cat_index + 1) =>
        LET c == categories[cat_index + 1] IN
        IF c \in {<<"News">>, <<"Business", "&", "Industrial">>, <<"Education">>}
        THEN pitch' = 0 /\ speaking_rate' = 1000000
        ELSE IF In(<<"Science", "Fiction">>, c) \/ In(<<"Fantasy">>, c)
        THEN pitch' = pitch - 100 /\ speaking_rate' = (speaking_rate * 95) \div 100
        ELSE IF In(<<"Romance">>, c)
        THEN pitch' = pitch + 150 /\ speaking_rate' = (speaking_rate * 103) \div 100
        ELSE IF In(<<"Poetry">>, c) \/ In(<<"Literature">>, c)
        THEN pitch' = pitch - 50 /\ speaking_rate' = (speaking_rate * 90) \div 100
        ELSE IF In(<<"Mystery">>, c) \/ In(<<"Thriller">>, c)
        THEN pitch' = pitch - 80 /\ speaking_rate' = (speaking_rate * 97) \div 100
        ELSE pitch' = pitch /\ speaking_rate' = speaking_rate

\* the loop leaves only after the last category
C25_AllApplied ==
    (spc = "done" /\ selected_voice # NoVoice) => cat_index = Len(categories)

C25_WitnessReset ==
    /\ spc = "categories"
    /\ sentiment_score = 10
    /\ categories = << <<"Romance">>, <<"News">> >>
    /\ cat_index = 2
    /\ pitch = 0
    /\ speaking_rate = 1000000

\* C29 as stated: the list get_available_voices returns for a language code
\* holds each voice of the cache at most once.
C29_Original ==
    \A m, n \in DOMAIN voices_for_lang :
        voices_for_lang[m] = voices_for_lang[n] => m = n

\* C10: a returned profile whose voice is a Chirp or Studio voice has pitch 0.0
\* and speaking rate 1.0, whatever the sentiment, categories, syntax and
\* gender preference.
C10_FixedProsody ==
    (sstatus = "returned"
        /\ (In(<<"Chirp">>, sprofile.name) \/ In(<<"Studio">>, sprofile.name))) =>
        (sprofile.pitch = 0 /\ sprofile.speaking_rate = RATE_ONE)

\* a Studio voice returned for a text whose sentiment, category and syntax all
\* move pitch and rate
C10_Witness ==
    /\ sstatus = "returned"
    /\ In(<<"Studio">>, sprofile.name)
    /\ sentiment_score = -10
    /\ categories = << <<"Science", "Fiction">> >>
    /\ syntax_info = Syntax(10, 25, 0)
    /\ sprofile.pitch = 0

\* C12: when a gender preference (MALE, FEMALE or NEUTRAL) is given, the
\* target gender of the candidate pick is that preference, whatever the
\* sentiment and the categories; the gender is inferred only without one.
C12_PreferenceOverrides ==
    (user_gender_preference \in Genders /\ target_gender # "NONE") =>
        target_gender = user_gender_preference

\* a MALE preference against a text whose sentiment and category both point
\* to FEMALE: the pick is made among the MALE voices
C12_Witness ==
    /\ spc = "done"
    /\ user_gender_preference = "MALE"
    /\ sentiment_score = 10
    /\ categories = << <<"Romance">> >>
    /\ target_gender = "MALE"
    /\ selected_voice = StudioM
    /\ sprofile.voice_gender = "MALE"

\* ------------------------------------------------------------------------
\* TextProcessingService.process_text (specification SpecText)
\*
\* A text is the sequence of its lines.  A line is a "Title:" line, an
\* "Author:" line or a line of the body; a metadata line carries what follows
\* the colon as a sequence of characters, in which " " is whitespace, ":" is
\* one of the characters illegal in a file name, "." is a full stop and
\* every other string is a word.
\* ------------------------------------------------------------------------
\* the longest text, in lines
MaxLines == 2

TitleLine(v) == [kind |-> "title", value |-> v]
AuthorLine(v) == [kind |-> "author", value |-> v]
BodyLine == [kind |-> "body", value |-> <<"Hi">>]

Lines ==
    { TitleLine(<<>>), TitleLine(<<" ", "The", " ", " ", "Book", ":">>),
      TitleLine(<<".", ":">>), AuthorLine(<<" ">>), AuthorLine(<<"John", " ", "Doe">>),
      BodyLine }

\* what source.get_text() may return: None, "" or a text
SourceTexts == {NoText} \cup {Text(ls) : ls \in SeqsUpTo(Lines, MaxLines)}

\* mutant: `if raw_text is None`
IsNotNone(t) == t.present

\* the truth value of an Optional[str]: neither None nor ""
Truthy(t) == t.present /\ t.lines # <<>>

\* value.strip()
RECURSIVE StripValue(_)
StripValue(v) ==
    IF v # <<>> /\ Head(v) = " " THEN StripValue(Tail(v))
    ELSE IF v # <<>> /\ v[Len(v)] = " " THEN StripValue(SubSeq(v, 1, Len(v) - 1))
    ELSE v

\* re.sub(r'[\\/:*?"<>|,;]', '', title)
DropIllegal(v) == SelectSeq(v, LAMBDA ch : ch # ":")

\* re.sub(r'\s+', '_', title)
RECURSIVE Underscore(_)
Underscore(v) ==
    IF v = <<>> THEN <<>>
    ELSE IF Head(v) = " "
         THEN IF Len(v) >= 2 /\ v[2] = " " THEN Underscore(Tail(v))
              ELSE <<"_">> \o Underscore(Tail(v))
         ELSE <<Head(v)>> \o Underscore(Tail(v))

\* title.strip('._')
RECURSIVE StripDots(_)
StripDots(v) ==
    IF v # <<>> /\ Head(v) \in {".", "_"} THEN StripDots(Tail(v))
    ELSE IF v # <<>> /\ v[Len(v)] \in {".", "_"} THEN StripDots(SubSeq(v, 1, Len(v) - 1))
    ELSE v

default_title == <<"unknown_book">>
default_author == <<"unknown_author">>

\* for line in lines[:limit]
limit == 20

\* the first of the first `limit` lines that is a line of the given kind, 0
\* when there is none
FirstLine(t, kind) ==
    LET found == {n \in DOMAIN t.lines : n <= limit /\ t.lines[n].kind = kind} IN
    IF found = {} THEN 0 ELSE CHOOSE n \in found : \A m \in found : n <= m

\* get_book_title: (raw title, sanitized title)
get_book_title(t) ==
    IF FirstLine(t, "title") = 0 THEN <<default_title, default_title>>
    ELSE LET raw == StripValue(t.lines[FirstLine(t, "title")].value)
             clean == StripDots(Underscore(DropIllegal(raw)))
         IN  IF raw = <<>> THEN <<default_title, default_title>>
             ELSE <<raw, IF clean # <<>> THEN clean ELSE default_title>>

\* get_book_author
get_book_author(t) ==
    IF FirstLine(t, "author") = 0 THEN default_author
    ELSE LET raw == StripValue(t.lines[FirstLine(t, "author")].value)
         IN  IF raw # <<>> THEN raw ELSE default_author

\* what cleaner.clean may return: the text itself (NoOpCleaner), its body
\* only, or nothing
CleanResults(t) ==
    {t, Text(SelectSeq(t.lines, LAMBDA l : l.kind = "body")), Text(<<>>)}

InitText ==
    /\ PipelineIdle
    /\ ChunkerIdle
    /\ SelectorIdle
    /\ tpc = "start"
    /\ source_text \in SourceTexts
    /\ raw_text = NoText
    /\ raw_title = <<>>
    /\ sanitized_title = <<>>
    /\ author = <<>>
    /\ cleaned_text = NoText
    /\ cleaner_calls = 0
    /\ exports = <<>>
    /\ tresult = "pending"

\* raw_text = self.source.get_text(); if not raw_text: return None
GetText ==
    /\ tpc = "start"
    /\ raw_text' = source_text
    /\ IF Truthy(source_text)
       THEN tpc' = "metadata" /\ UNCHANGED tresult
       ELSE tpc' = "done" /\ tresult' = "None"
    /\ UNCHANGED <<source_text, raw_title, sanitized_title, author, cleaned_text,
                   cleaner_calls, exports>>
    /\ UNCHANGED <<pvars, cvars, svars>>

\* 1. the title and the author are read from the raw text
ExtractMetadata ==
    /\ tpc = "metadata"
    /\ raw_title' = get_book_title(raw_text)[1]
    /\ sanitized_title' = get_book_title(raw_text)[2]
    /\ author' = get_book_author(raw_text)
    /\ tpc' = "export_raw"
    /\ UNCHANGED <<source_text, raw_text, cleaned_text, cleaner_calls, exports, tresult>>
    /\ UNCHANGED <<pvars, cvars, svars>>

\* 2. self.exporter.export(raw_text, <sanitized_title>_raw.txt)
ExportRaw ==
    /\ tpc = "export_raw"
    /\ exports' = Append(exports, [content |-> raw_text,
                                   name |-> Append(sanitized_title, "_raw.txt")])
    /\ tpc' = "clean"
    /\ UNCHANGED <<source_text, raw_text, raw_title, sanitized_title, author,
                   cleaned_text, cleaner_calls, tresult>>
    /\ UNCHANGED <<pvars, cvars, svars>>

\* 3. cleaned_text = self.cleaner.clean(raw_text, raw_title=raw_title)
CleanText ==
    /\ tpc = "clean"
    /\ cleaned_text' \in CleanResults(raw_text)
    /\ cleaner_calls' = cleaner_calls + 1
    /\ tpc' = "export_clean"
    /\ UNCHANGED <<source_text, raw_text, raw_title, sanitized_title, author,
                   exports, tresult>>
    /\ UNCHANGED <<pvars, cvars, svars>>

\* 4. self.exporter.export(cleaned_text, <sanitized_title>_cleaned.txt); return {...}
ExportCleaned ==
    /\ tpc = "export_clean"
    /\ exports' = Append(exports, [content |-> cleaned_text,
                                   name |-> Append(sanitized_title, "_cleaned.txt")])
    /\ tresult' = "dict"
    /\ tpc' = "done"
    /\ UNCHANGED <<source_text, raw_text, raw_title, sanitized_title, author,
                   cleaned_text, cleaner_calls>>
    /\ UNCHANGED <<pvars, cvars, svars>>

NextText ==
    \/ GetText
    \/ ExtractMetadata
    \/ ExportRaw
    \/ CleanText
    \/ ExportCleaned

SpecText == InitText /\ [][NextText]_vars

\* C15: process_text returns None whenever the source yields no text (None or
\* the empty string), and then calls neither the cleaner nor the exporter.
C15_NoTextNoWork ==
    (tpc # "start" /\ ~(source_text.present /\ source_text.lines # <<>>)) =>
        /\ tpc = "done"
        /\ tresult = "None"
        /\ cleaner_calls = 0
        /\ exports = <<>>

\* the source returned the empty string
C15_Witness ==
    /\ tpc = "done"
    /\ source_text = Text(<<>>)
    /\ raw_text = Text(<<>>)
    /\ tresult = "None"

\* the source returned None
C15_WitnessNone ==
    /\ tpc = "done"
    /\ source_text = NoText
    /\ tresult = "None"

\* ------------------------------------------------------------------------
\* Properties of synthesize_audio and synthesize (specification Spec)
\* ------------------------------------------------------------------------
ChunkIdx == 0 .. Len(chunks) - 1

\* chunks whose synthesize call returned True / returned False / raised
Succeeded == {k \in ChunkIdx : outcome[k + 1] = "True"}
ReturnedFalse == {k \in ChunkIdx : outcome[k + 1] = "False"}
Raised == {k \in ChunkIdx : outcome[k + 1] = "raised"}
Invoked == Succeeded \cup ReturnedFalse \cup Raised
                \cup {k \in ChunkIdx : outcome[k + 1] = "running"}

Ascending(seq) == \A m, n \in DOMAIN seq : m < n => seq[m] < seq[n]

\* the chunk indices named by a failed_chunk_NNNN.txt in the temporary directory
Manifests == {k \in ChunkIdx : FailedFile(k) \in temp_files}

\* the positions of the calls of op in the log, and the first of them (0: none)
Calls(op) == {n \in DOMAIN log : log[n].op = op}
First(op) == IF Calls(op) = {} THEN 0 ELSE CHOOSE n \in Calls(op) : \A m \in Calls(op) : n <= m

AnalysisOps ==
    {"analyze_language", "analyze_sentiment", "analyze_category",
     "analyze_syntax_complexity", "analyze_regional_context"}

\* C16 as stated: the stages follow START, ANALYZED, PROFILED, SPLIT,
\* SYNTHESIZING: when the text is split the analysis and the profile selection
\* are complete, and the split is complete before the first synthesize call.
C16_Original ==
    /\ Calls("chunk") # {} =>
        /\ \A op \in AnalysisOps : First(op) # 0 /\ First(op) < First("chunk")
        /\ First("get_contextual_voice_parameters") # 0
        /\ First("get_contextual_voice_parameters") < First("chunk")
    /\ Calls("synthesize") # {} =>
        (First("chunk") # 0 /\ First("chunk") < First("synthesize"))

\* the order the code keeps: split, analysis, profile, synthesis
C16_OrderInCode ==
    /\ \A op \in AnalysisOps : First(op) # 0 => First("chunk") = 1
    /\ First("get_contextual_voice_parameters") # 0 =>
        \A op \in AnalysisOps : First(op) # 0 /\ First(op) < First("get_contextual_voice_parameters")
    /\ Calls("synthesize") # {} =>
        (First("get_contextual_voice_parameters") # 0
            /\ First("get_contextual_voice_parameters") < First("synthesize"))

\* C17: in one run each analysis operation is called at most once, always on
\* the entire text and never on a chunk, and the voice profile is selected at
\* most once; by the first synthesize call each of them has happened exactly
\* once, and every synthesize call of the run is given the same profile.
C17_OneProfilePerRun ==
    /\ \A op \in AnalysisOps :
        /\ Cardinality(Calls(op)) <= 1
        /\ \A n \in Calls(op) : log[n].on = FullText
    /\ Cardinality(Calls("get_contextual_voice_parameters")) <= 1
    /\ (Calls("synthesize") # {} \/ (pc = "done" /\ result = "path")) =>
        /\ \A op \in AnalysisOps : Cardinality(Calls(op)) = 1
        /\ Cardinality(Calls("get_contextual_voice_parameters")) = 1
    /\ \A n \in Calls("synthesize") :
        /\ log[n].with = voice_params
        /\ log[n].with \in VoiceProfiles

\* a finished run that handed several chunks to the synthesizer
C17_Witness ==
    /\ pc = "done"
    /\ result = "path"
    /\ Cardinality(Calls("synthesize")) = MaxChunks
    /\ \A op \in AnalysisOps : Cardinality(Calls(op)) = 1

\* C19 as stated: once synthesize_audio has returned after the assembly (the
\* final file was exported), no chunk_NNNN.mp3 of the run is left in the
\* temporary directory.
C19_Original ==
    (pc = "done" /\ output_file.exists) =>
        \A k \in ChunkIdx : ChunkFile(k) \notin temp_files

\* C28 as stated: synthesize_audio returns None only if the run wrote no final
\* output file, and returns the path whenever the file was exported.
C28_Original ==
    pc = "done" => (result = "None" <=> ~output_file.exists)

\* what does hold: a returned path names a file that was exported
C28_PathMeansFile ==
    (pc = "done" /\ result # "None") => output_file.exists

\* the run makes a bounded number of backend calls and hands the chunks to the
\* synthesizer one by one in index order, each at most once
C30_Bounded ==
    /\ total_calls <= Len(chunks) * (MAX_API_RETRIES + 1)
    /\ calls <= MAX_API_RETRIES + 1
    /\ \A m, n \in Calls("synthesize") : m < n => log[m].on < log[n].on
    /\ \A n \in Calls("synthesize") : log[n].on \in ChunkIdx /\ log[n].on <= i
    /\ pc = "done" => result \in {"path", "None"}

\* C30: every run of synthesize_audio ends with a result (path or None); for n
\* chunks the backend is called at most n * (MAX_API_RETRIES + 1) times in
\* total, each chunk is handed to the synthesizer at most once, and no chunk
\* is taken up again after a later one.
C30_TerminatesBounded ==
    /\ <>(pc = "done")
    /\ []C30_Bounded

\* a run that ended after every chunk used up all its attempts
C30_Witness ==
    /\ pc = "done"
    /\ Len(chunks) = MaxChunks
    /\ total_calls = MaxChunks * (MAX_API_RETRIES + 1)
    /\ Cardinality(Calls("synthesize")) = MaxChunks

\* C20: if the text yields no chunks, synthesize_audio returns None; it has
\* made no analysis, voice-selection or synthesis call and has created
\* neither the temporary directory nor the output file.
C20_NoChunksNoWork ==
    (pc # "start" /\ chunks = <<>>) =>
        /\ pc = "done"
        /\ result = "None"
        /\ \A n \in DOMAIN log : log[n].op = "chunk"
        /\ temp_dir = foreign
        /\ temp_files = (IF foreign THEN {SubDir} ELSE {})
        /\ ~output_file.exists

\* the chunker was asked, returned nothing, and the run ended there
C20_Witness ==
    /\ pc = "done"
    /\ chunks = <<>>
    /\ log = <<Call("chunk", FullText)>>
    /\ result = "None"
    /\ ~temp_dir

\* C2: if no chunk of the run is synthesized successfully, synthesize_audio
\* returns None and the final output file is not created.
C2_NoSuccessNoOutput ==
    /\ Succeeded = {} => output_file = Absent
    /\ (pc = "done" /\ Succeeded = {}) => result = "None"

\* a finished run in which every chunk was handed to the synthesizer and failed
C2_Witness ==
    /\ pc = "done"
    /\ Len(chunks) >= 2
    /\ ReturnedFalse = ChunkIdx
    /\ result = "None"

\* C3 as stated: the final audio is the concatenation, in ascending index
\* order, of the audio of exactly the chunks whose synthesis succeeded.
C3_Original ==
    output_file.exists =>
        /\ Ascending(output_file.audio)
        /\ Elems(output_file.audio) = Succeeded

\* C4 as stated: when synthesize_audio returns the path after some chunks
\* failed, a failed_chunk file exists for exactly the (non-blank) chunks whose
\* audio is missing from the final artifact.
C4_Original ==
    (pc = "done" /\ result = "path") =>
        Manifests = {k \in ChunkIdx : chunks[k + 1] = "text"
                                        /\ k \notin Elems(output_file.audio)}

\* C5 as stated: for every failed chunk i and every later non-empty chunk j,
\* the synthesizer is still invoked for chunk j.
C5_Original ==
    pc = "done" =>
        \A k, j \in ChunkIdx :
            (k \in ReturnedFalse \cup Raised /\ j > k /\ chunks[j + 1] = "text")
                => j \in Invoked

\* C6: a backend that fails transiently k times (0 <= k <= max_retries) and
\* then succeeds makes synthesize return True after exactly k + 1 backend
\* calls, with the audio written to the caller-supplied path.
C6_RetryThenSuccess ==
    (pc = "returned" /\ backend.final = "ok") =>
        /\ outcome[i + 1] = "True"
        /\ calls = backend.fails + 1
        /\ ChunkFile(i) \in temp_files

\* four transient failures, then success on the fifth call
C6_Witness ==
    /\ pc = "returned"
    /\ backend = [fails |-> 4, final |-> "ok"]
    /\ calls = 5
    /\ outcome[i + 1] = "True"

\* C7: a backend that fails transiently on every call makes synthesize return
\* False after exactly max_retries + 1 backend calls; no exception leaves it.
C7_RetriesExhausted ==
    backend.final = "transient" =>
        /\ calls <= MAX_API_RETRIES + 1
        /\ pc \in {"attempt", "returned"}
        /\ pc = "returned" =>
            (outcome[i + 1] = "False" /\ calls = MAX_API_RETRIES + 1)

C7_Witness ==
    /\ pc = "returned"
    /\ backend.final = "transient"
    /\ calls = MAX_API_RETRIES + 1
    /\ outcome[i + 1] = "False"

\* C8: an attempt that fails with a non-transient error ends synthesize with
\* False at once: no backend call and no backoff sleep follows it.
C8_NonTransientNoRetry ==
    (pc = "returned" /\ backend.final = "nontransient") =>
        /\ outcome[i + 1] = "False"
        /\ calls = backend.fails + 1
        /\ sleeps = backend.fails

\* a non-transient error on the first call, with every retry still unused
C8_Witness ==
    /\ pc = "returned"
    /\ backend = [fails |-> 0, final |-> "nontransient"]
    /\ calls = 1
    /\ sleeps = 0
    /\ outcome[i + 1] = "False"

====
